---- MODULE Spec2Model ----
(***************************************************************************)
(* WebSocketServer (src/util/WebSocketServer.cpp), its spectrogram         *)
(* producer wsSpectrogram (src/util/ws_spectrogram.cpp) and the WebSocket  *)
(* log sink (src/util/log.cpp) as one state machine.                       *)
(*                                                                         *)
(* One thread runs wsSpectrogram::threadMain: its loop calls               *)
(* WebSocketServer::wait, inside which libwebsockets dispatches            *)
(* callback_main for the engine events, and then looks at the sample       *)
(* queue.  Other threads call send/broadcast, log through the sink, push   *)
(* sample batches and call terminate.  The later sections follow a logging *)
(* thread through broadcast_log entry by entry, the threads through their  *)
(* mutex operations, and run() through the text of a spectrum message.     *)
(***************************************************************************)
EXTENDS Integers, Sequences, FiniteSets, TLC

\* ------------------------------------------------------------ bounds
MaxBuf   == 2      \* messages a Connection's buffer holds in the model
MaxWire  == 2      \* lws_write calls recorded per socket
MaxDepth == 6      \* batches the sample queue holds in the model
Nfft     == 3      \* transform size in the model (nfft = 512 in run())

Fds      == {1, 2}               \* socket descriptors
Msgs     == {"A", "BB"}          \* payloads of send / broadcast callers
LogMsg   == "L"                  \* a formatted log record
Tags     == {"logs", "user"}     \* permission tags
Payloads == {<<":">>, <<"c", ":", "1">>, <<"c">>, <<"7">>}   \* inbound texts
Digits   == {"0", "1", "7"}
SpectrumMsg == "{}"              \* the message run() builds from a batch
AllMsgs  == Msgs \cup {LogMsg, SpectrumMsg}

\* the sample-queue depth a batch is popped above: size() > 5
QueueThreshold == 5

VARIABLES
    connections,    \* WebSocketServer::connections : map<int, Connection*>
    open,           \* sockets libwebsockets holds a session (wsi) for
    writableReq,    \* sockets with a requested writable callback
    wire,           \* per socket, the messages handed to lws_write
    wfail,          \* per socket, whether an lws_write returned short of the length
    handed,         \* per socket, how many of its Connection's messages, from
                    \* the oldest on, have been given to lws_write
    enq,            \* per socket, the messages pushed onto its Connection
    lifecycle,      \* per socket, the last lifecycle event
    fault,          \* "none", or the place where the process trapped
    m_socketsOn,    \* wsSpectrogram::m_socketsOn
    qsize,          \* m_IQdataQueue->size()
    pc,             \* position of the threadMain thread
    stopping, terminated, m_isWsRunning,
    iter,           \* what the current loop iteration has done
    last,           \* the operation the most recent step ran, if a claim speaks of it
    walker,         \* a logging thread's place inside broadcast_log's loop
    held,           \* per mutex, the thread that holds it
    tpos,           \* per thread, its place in a code path that takes mutexes
    sp_psd,         \* the estimator's output, one value per bin, in tenths
    m_rxFreq,       \* wsSpectrogram::m_rxFreq
    m_span,         \* wsSpectrogram::m_span
    m_msgSOCKET     \* wsSpectrogram::m_msgSOCKET, as a sequence of tokens

\* what the steps that follow single mutexes and single map entries change
threadVars == <<walker, held, tpos>>

\* what building a spectrum message reads and writes
msgVars == <<sp_psd, m_rxFreq, m_span, m_msgSOCKET>>

vars == <<connections, open, writableReq, wire, wfail, handed, enq, lifecycle, fault,
          m_socketsOn, qsize, pc, stopping, terminated, m_isWsRunning,
          iter, last, threadVars, msgVars>>

\* ------------------------------------------------------------ Connection
\* new Connection: empty buffer, no permissions
NewConnection  == [ptr |-> "obj",  buffer |-> <<>>, permissions |-> {}]
\* the value-initialised Connection* that map::operator[] inserts
NullConnection == [ptr |-> "null", buffer |-> <<>>, permissions |-> {}]

IsLive(conns, id) == id \in DOMAIN conns /\ conns[id].ptr = "obj"

\* MUTANT: the message is put at the head of the list
push_to_buffer_front(c, data) == [c EXCEPT !.buffer = <<data>> \o @]

\* this->buffer.push_back(buffer)
push_to_buffer(c, data) == [c EXCEPT !.buffer = Append(@, data)]

getBuffer(c) == c.buffer

\* MUTANT: any permission at all passes
hasPermission_any(c, permission) == c.permissions # {}

\* std::find(permissions.begin(), permissions.end(), permission) != end()
hasPermission(c, permission) == permission \in c.permissions

\* ------------------------------------------------------------ std::map
MapPut(m, k, v) == [x \in DOMAIN m \cup {k} |-> IF x = k THEN v ELSE m[x]]

MapErase(m, k) == [x \in DOMAIN m \ {k} |-> m[x]]

\* connections[k]: inserts a null pointer when k is absent
MapIndex(m, k) == IF k \in DOMAIN m THEN m ELSE MapPut(m, k, NullConnection)

getNumberOfConnections == Cardinality(DOMAIN connections)

\* ------------------------------------------------------------ helpers
strlen(message) == Len(message)

\* charsSent < msgLen with int charsSent and size_t msgLen: the int is
\* converted to size_t, so a negative charsSent becomes 2^64 + charsSent,
\* which no strlen result exceeds.
IntLessSizeT(charsSent, msgLen) == charsSent >= 0 /\ charsSent < msgLen

IsPrefix(s, t) == Len(s) <= Len(t) /\ SubSeq(t, 1, Len(s)) = s

\* op: the operation ("none": one no claim speaks of); fd, data: its
\* arguments; known: whether fd had a registry entry when it began; buffer:
\* the copy a drain loop walked; writes: the lws_write calls the loop made,
\* each with its result; onError: whether it called onErrorWrapper
NoLast == [op |-> "none", fd |-> 0, data |-> "", known |-> FALSE,
           buffer |-> <<>>, writes |-> <<>>, onError |-> FALSE]

Op(op, fd, data) == [NoLast EXCEPT !.op = op, !.fd = fd, !.data = data,
                                   !.known = fd \in DOMAIN connections]

\* ran: the iteration reached the queue check; depth: the size it saw; stop:
\* the stopping flag at that moment; pops, bcasts: what it did afterwards
\* the threads that take mutexes, and the mutexes: m_onSockets_mutex,
\* m_queue_bindings_mutex and the WebSocket sink's mutex
Threads == {"reactor", "binder", "logger"}

Locks == {"gate", "queue", "sink"}

\* outside broadcast_log
NoWalk == [at |-> "out", id |-> 0]

\* in no code path that takes a mutex
NoPath == [path |-> "none", i |-> 0]

NoIter == [ran |-> FALSE, depth |-> 0, stop |-> FALSE, pops |-> 0, bcasts |-> 0]

\* ------------------------------------------------------------ registry
\* MUTANT: the entry is looked up and deleted but never erased
removeConnection_noErase(conns, socketID) == MapIndex(conns, socketID)

\* Connection* c = connections[socketID]; connections.erase(socketID); delete c;
_removeConnection(conns, socketID) == MapErase(MapIndex(conns, socketID), socketID)

\* connections[socketID]->push_to_buffer(data): the pointer is not tested, so
\* pushing through the null pointer operator[] inserted traps.
send(conns, socketID, data) ==
    LET m == MapIndex(conns, socketID) IN
    IF m[socketID].ptr = "null"
    THEN [conns |-> m, trap |-> TRUE]
    ELSE [conns |-> [m EXCEPT ![socketID] = push_to_buffer(@, data)],
          trap  |-> FALSE]

Min(S) == CHOOSE x \in S : \A y \in S : x <= y

\* for (auto& connection : connections) send(connection.first, data);
\* std::map iterates in key order; a trap ends the walk.
RECURSIVE BroadcastFrom(_, _, _)
BroadcastFrom(conns, ids, data) ==
    IF ids = {} THEN [conns |-> conns, trap |-> FALSE]
    ELSE LET r == send(conns, Min(ids), data) IN
         IF r.trap THEN r ELSE BroadcastFrom(r.conns, ids \ {Min(ids)}, data)

broadcast(conns, data) == BroadcastFrom(conns, DOMAIN conns, data)

\* for (auto& id_and_connection : connections)
\*     if (second->hasPermission("logs")) second->push_to_buffer(data);
RECURSIVE BroadcastLogFrom(_, _, _)
BroadcastLogFrom(conns, ids, data) ==
    IF ids = {} THEN [conns |-> conns, trap |-> FALSE]
    ELSE LET id == Min(ids) IN
         IF conns[id].ptr = "null" THEN [conns |-> conns, trap |-> TRUE]
         ELSE BroadcastLogFrom(
                  IF hasPermission(conns[id], "logs")
                  THEN [conns EXCEPT ![id] = push_to_buffer(@, data)]
                  ELSE conns,
                  ids \ {id}, data)

broadcast_log(conns, data) == BroadcastLogFrom(conns, DOMAIN conns, data)

\* WebSocketSink::sink_it_: the formatted record goes to broadcast_log
sink_it_(conns, msg) == broadcast_log(conns, msg)

\* n log statements of a handler whose records pass the logger's level
RECURSIVE Logged(_, _)
Logged(conns, n) ==
    IF n = 0 THEN conns ELSE Logged(sink_it_(conns, LogMsg).conns, n - 1)

\* spdlog's base_sink<std::mutex>::log locks the sink's mutex around
\* sink_it_: n records can be logged when no other thread holds it
CanLog(n) == n > 0 => held["sink"] = "none"

\* the model's buffers hold MaxBuf messages: n more fit on each of ids
Room(conns, ids, n) ==
    \A id \in ids : IsLive(conns, id) => Len(conns[id].buffer) + n <= MaxBuf

LogReaders(conns) ==
    {id \in DOMAIN conns : IsLive(conns, id) /\ hasPermission(conns[id], "logs")}

\* the messages each live Connection has been handed, after a step that
\* leaves the registry as conns2 (no operation removes from Connection::buffer)
EnqAfter(conns2) ==
    [id \in Fds |->
        IF ~IsLive(conns2, id) THEN <<>>
        ELSE IF IsLive(connections, id)
                /\ Len(connections[id].buffer) <= Len(conns2[id].buffer)
             THEN enq[id] \o SubSeq(conns2[id].buffer,
                                    Len(connections[id].buffer) + 1,
                                    Len(conns2[id].buffer))
             ELSE conns2[id].buffer]

\* ------------------------------------------------------------ drain loop
\* while (!buffer.empty()) { lws_write(front); if (charsSent < msgLen)
\* { onErrorWrapper; break; } else buffer.pop_front(); }
\* rets holds the result of each lws_write; the value is the calls made and
\* whether the error branch was taken.
RECURSIVE Drain(_, _)
Drain(buffer, rets) ==
    IF buffer = <<>> THEN [writes |-> <<>>, error |-> FALSE]
    ELSE LET message   == Head(buffer)
             msgLen    == strlen(message)
             charsSent == Head(rets)
             w         == <<[msg |-> message, ret |-> charsSent]>>
         IN IF IntLessSizeT(charsSent, msgLen)
            THEN [writes |-> w, error |-> TRUE]
            ELSE LET rest == Drain(Tail(buffer), Tail(rets))
                 IN [writes |-> w \o rest.writes, error |-> rest.error]

MaxMsgLen == CHOOSE n \in {strlen(m) : m \in AllMsgs} :
                 \A m \in AllMsgs : strlen(m) <= n

\* results lws_write can give for each message of buffer: -1 or a byte count
WriteResults(buffer) ==
    {rets \in [1..Len(buffer) -> {-1} \cup (0..MaxMsgLen)] :
        \A i \in 1..Len(buffer) : rets[i] <= strlen(buffer[i])}

\* ------------------------------------------------------------ initial state
\* after wsSpectrogram's constructor: no connection, all flags false
InitServer ==
    /\ connections = <<>>
    /\ open = {}
    /\ writableReq = {}
    /\ wire = [fd \in Fds |-> <<>>]
    /\ wfail = [fd \in Fds |-> FALSE]
    /\ handed = [fd \in Fds |-> 0]
    /\ enq = [fd \in Fds |-> <<>>]
    /\ lifecycle = [fd \in Fds |-> "none"]
    /\ fault = "none"
    /\ m_socketsOn = FALSE
    /\ qsize = QueueThreshold
    /\ pc = "idle"
    /\ stopping = FALSE
    /\ terminated = FALSE
    /\ m_isWsRunning = FALSE
    /\ iter = NoIter
    /\ last = NoLast
    /\ walker = NoWalk
    /\ held = [l \in Locks |-> "none"]
    /\ tpos = [t \in Threads |-> NoPath]

Init ==
    /\ InitServer
    /\ sp_psd = [i \in 1..Nfft |-> 0]
    /\ m_rxFreq = 0
    /\ m_span = 0
    /\ m_msgSOCKET = <<>>

\* ------------------------------------------------------------ callback_main
\* Engine callbacks run inside lws_service, which the thread calls from wait.
InService == pc = "wait" /\ fault = "none"

\* LWS_CALLBACK_ESTABLISHED: onConnectWrapper(fd); lws_callback_on_writable.
\* onConnectWrapper stores a new Connection under fd and calls onConnect,
\* which logs and sets m_socketsOn.
Established(fd) ==
    /\ InService
    /\ fd \notin open
    /\ \E lg \in 0..1 :
         LET c1 == MapPut(connections, fd, NewConnection)
             c2 == Logged(c1, lg)
         IN /\ Room(c1, LogReaders(c1), lg)
            /\ CanLog(lg)
            /\ connections' = c2
            /\ enq' = [EnqAfter(c2) EXCEPT ![fd] = c2[fd].buffer]
            /\ last' = Op("established", fd, "")
    /\ m_socketsOn' = TRUE
    /\ open' = open \cup {fd}
    /\ writableReq' = writableReq \cup {fd}
    /\ wire' = [wire EXCEPT ![fd] = <<>>]
    /\ wfail' = [wfail EXCEPT ![fd] = FALSE]
    /\ handed' = [handed EXCEPT ![fd] = 0]
    /\ lifecycle' = [lifecycle EXCEPT ![fd] = "established"]
    /\ UNCHANGED <<threadVars, msgVars>>
    /\ UNCHANGED <<fault, qsize, pc, stopping, terminated, m_isWsRunning, iter>>

\* LWS_CALLBACK_ESTABLISHED under a descriptor that has a registry entry (the
\* engine reports a second session on a socket in use): onConnectWrapper
\* tests nothing, connections[socketID] = c replaces the entry, and the
\* Connection it pointed to is neither deleted nor reachable any more.
EstablishedDuplicate(fd) ==
    /\ InService
    /\ fd \in open
    /\ fd \in DOMAIN connections
    /\ \E lg \in 0..1 :
         LET c1 == MapPut(connections, fd, NewConnection)
             c2 == Logged(c1, lg)
         IN /\ Room(c1, LogReaders(c1), lg)
            /\ CanLog(lg)
            /\ connections' = c2
            /\ enq' = [EnqAfter(c2) EXCEPT ![fd] = c2[fd].buffer]
            /\ last' = Op("established", fd, "")
    /\ m_socketsOn' = TRUE
    /\ writableReq' = writableReq \cup {fd}
    /\ lifecycle' = [lifecycle EXCEPT ![fd] = "established"]
    /\ UNCHANGED <<threadVars, msgVars>>
    /\ handed' = [handed EXCEPT ![fd] = 0]
    /\ UNCHANGED <<open, wire, wfail, fault, qsize, pc, stopping, terminated,
                   m_isWsRunning, iter>>

\* MUTANT: the callback is not requested again
RearmAfterDrain_never(req, fd) == req

\* line 64, after the drain loop: lws_callback_on_writable(wsi)
RearmAfterDrain(req, fd) == req \cup {fd}

\* LWS_CALLBACK_SERVER_WRITEABLE for a socket whose registry entry exists.
\* buffer is a copy of the Connection's list (auto, not auto&): pop_front
\* works on the copy.  On a short write onErrorWrapper logs, calls onError
\* (which logs) and removes the connection.  The callback is re-requested.
WritableDrain(fd) ==
    /\ InService
    /\ fd \in open /\ fd \in writableReq
    /\ fd \in DOMAIN connections
    /\ LET buffer == getBuffer(connections[fd]) IN
       /\ Len(wire[fd]) + Len(buffer) <= MaxWire
       /\ \E rets \in WriteResults(buffer) : \E lg \in 0..2 :
            LET d  == Drain(buffer, rets)
                c1 == IF d.error
                      THEN _removeConnection(Logged(connections, lg), fd)
                      ELSE connections
            IN /\ d.error => Room(connections, LogReaders(connections) \ {fd}, lg)
               /\ CanLog(lg)
               /\ ~d.error => lg = 0
               /\ connections' = c1
               /\ enq' = EnqAfter(c1)
               /\ wire' = [wire EXCEPT ![fd] =
                              @ \o [i \in 1..Len(d.writes) |-> d.writes[i].msg]]
               /\ handed' = [handed EXCEPT ![fd] =
                                IF d.error THEN 0
                                ELSE IF Len(d.writes) > @ THEN Len(d.writes) ELSE @]
               /\ wfail' = [wfail EXCEPT ![fd] =
                              @ \/ \E i \in 1..Len(d.writes) :
                                     d.writes[i].ret # strlen(d.writes[i].msg)]
               /\ lifecycle' = [lifecycle EXCEPT
                                  ![fd] = IF d.error THEN "removed" ELSE @]
               /\ last' = [Op("writable", fd, "") EXCEPT
                              !.buffer = buffer, !.writes = d.writes,
                              !.onError = d.error]
    /\ writableReq' = RearmAfterDrain(writableReq \ {fd}, fd)
    /\ UNCHANGED <<threadVars, msgVars>>
    /\ UNCHANGED <<open, fault, m_socketsOn, qsize, pc, stopping, terminated,
                   m_isWsRunning, iter>>

\* LWS_CALLBACK_SERVER_WRITEABLE for a socket without a registry entry (its
\* connection was removed on a write error, the session is still open):
\* connections[fd] inserts a null pointer and ->getBuffer() reads through it.
WritableNoEntry(fd) ==
    /\ InService
    /\ fd \in open /\ fd \in writableReq
    /\ fd \notin DOMAIN connections
    /\ connections' = MapIndex(connections, fd)
    /\ fault' = "SERVER_WRITEABLE"
    /\ last' = Op("writable", fd, "")
    /\ UNCHANGED <<threadVars, msgVars>>
    /\ UNCHANGED <<open, writableReq, wire, wfail, handed, enq, lifecycle,
                   m_socketsOn, qsize,
                   pc, stopping, terminated, m_isWsRunning, iter>>

\* LWS_CALLBACK_CLOSED: onDisconnectWrapper(fd) calls onDisconnect, which logs
\* and clears m_socketsOn, then _removeConnection(fd).
Closed(fd) ==
    /\ InService
    /\ fd \in open
    /\ \E lg \in 0..1 :
         LET c1 == _removeConnection(Logged(connections, lg), fd)
         IN /\ Room(connections, LogReaders(connections) \ {fd}, lg)
            /\ CanLog(lg)
            /\ connections' = c1
            /\ enq' = EnqAfter(c1)
    /\ m_socketsOn' = FALSE
    /\ open' = open \ {fd}
    /\ writableReq' = writableReq \ {fd}
    /\ wire' = [wire EXCEPT ![fd] = <<>>]
    /\ wfail' = [wfail EXCEPT ![fd] = FALSE]
    /\ handed' = [handed EXCEPT ![fd] = 0]
    /\ lifecycle' = [lifecycle EXCEPT ![fd] = "removed"]
    /\ last' = Op("closed", fd, "")
    /\ UNCHANGED <<threadVars, msgVars>>
    /\ UNCHANGED <<fault, qsize, pc, stopping, terminated, m_isWsRunning, iter>>

\* ------------------------------------------------------------ onMessage
HasColon(data) == \E i \in 1..Len(data) : data[i] = ":"

\* data.find_first_of(':'), 0-based, for a text that holds a colon
FindFirstOf(data) == Min({i \in 1..Len(data) : data[i] = ":"}) - 1

\* find_first_of(':') > 0: npos (no colon) is the largest size_t
FoundPastStart(data) == IF HasColon(data) THEN FindFirstOf(data) > 0 ELSE TRUE

\* data.substr(find_first_of(':') + 1): npos + 1 wraps to 0
AfterColon(data) ==
    IF HasColon(data) THEN SubSeq(data, FindFirstOf(data) + 2, Len(data))
    ELSE data

\* std::stoi throws std::invalid_argument when no digits can be converted
StoiThrows(s) == s = <<>> \/ Head(s) \notin Digits

\* LWS_CALLBACK_RECEIVE: onMessage logs, parses "cmd:par" and logs again.
Receive(fd, data) ==
    /\ InService
    /\ fd \in open
    /\ ~(FoundPastStart(data) /\ StoiThrows(AfterColon(data)))
    /\ \E lg \in 0..2 :
         /\ Room(connections, LogReaders(connections), lg)
         /\ CanLog(lg)
         /\ connections' = Logged(connections, lg)
         /\ enq' = EnqAfter(Logged(connections, lg))
    /\ last' = NoLast
    /\ UNCHANGED <<threadVars, msgVars>>
    /\ UNCHANGED <<open, writableReq, wire, wfail, handed, lifecycle, fault,
                   m_socketsOn,
                   qsize, pc, stopping, terminated, m_isWsRunning, iter>>

\* LWS_CALLBACK_RECEIVE with a text std::stoi rejects: the exception leaves
\* callback_main through the frames of the C library.  Either the runtime
\* cannot unwind them and calls std::terminate, or the exception reaches
\* threadMain's catch, which sets terminated and stopping and rethrows.
ReceiveThrows(fd, data) ==
    /\ InService
    /\ fd \in open
    /\ FoundPastStart(data) /\ StoiThrows(AfterColon(data))
    /\ \E lg \in 0..1 :
         /\ Room(connections, LogReaders(connections), lg)
         /\ CanLog(lg)
         /\ connections' = Logged(connections, lg)
         /\ enq' = EnqAfter(Logged(connections, lg))
    /\ last' = NoLast
    /\ \/ /\ fault' = "onMessage"
          /\ UNCHANGED <<pc, stopping, terminated>>
       \/ /\ pc' = "failed"
          /\ terminated' = TRUE
          /\ stopping' = TRUE
          /\ UNCHANGED fault
    /\ UNCHANGED <<threadVars, msgVars>>
    /\ UNCHANGED <<open, writableReq, wire, wfail, handed, lifecycle,
                   m_socketsOn, qsize,
                   m_isWsRunning, iter>>

\* ------------------------------------------------------------ callers
\* WebSocketServer::send called by another thread
Send(socketID, data) ==
    /\ fault = "none"
    /\ Room(connections, {socketID}, 1)
    /\ LET r == send(connections, socketID, data) IN
       /\ connections' = r.conns
       /\ enq' = EnqAfter(r.conns)
       /\ fault' = IF r.trap THEN "send" ELSE fault
    /\ last' = Op("send", socketID, data)
    /\ UNCHANGED <<threadVars, msgVars>>
    /\ UNCHANGED <<open, writableReq, wire, wfail, handed, lifecycle,
                   m_socketsOn, qsize, pc,
                   stopping, terminated, m_isWsRunning, iter>>

\* WebSocketServer::broadcast called by another thread
Broadcast(data) ==
    /\ fault = "none"
    /\ Room(connections, DOMAIN connections, 1)
    /\ LET r == broadcast(connections, data) IN
       /\ connections' = r.conns
       /\ enq' = EnqAfter(r.conns)
       /\ fault' = IF r.trap THEN "broadcast" ELSE fault
    /\ last' = Op("broadcast", 0, data)
    /\ UNCHANGED <<threadVars, msgVars>>
    /\ UNCHANGED <<open, writableReq, wire, wfail, handed, lifecycle,
                   m_socketsOn, qsize, pc,
                   stopping, terminated, m_isWsRunning, iter>>

\* a thread logs a record: WebSocketSink::sink_it_ -> broadcast_log
LogRecord ==
    /\ fault = "none"
    /\ CanLog(1)
    /\ Room(connections, LogReaders(connections), 1)
    /\ LET r == sink_it_(connections, LogMsg) IN
       /\ connections' = r.conns
       /\ enq' = EnqAfter(r.conns)
       /\ fault' = IF r.trap THEN "broadcast_log" ELSE fault
    /\ last' = Op("sink_it_", 0, LogMsg)
    /\ UNCHANGED <<threadVars, msgVars>>
    /\ UNCHANGED <<open, writableReq, wire, wfail, handed, lifecycle,
                   m_socketsOn, qsize, pc,
                   stopping, terminated, m_isWsRunning, iter>>

\* ------------------------------------------------------------ broadcast_log, entry by entry
\* A logging thread inside WebSocketSink::sink_it_ holds the sink's mutex and
\* walks the registry in broadcast_log; nothing else orders it against the
\* thread that runs callback_main.  walker.id is the entry its iterator is at.
NextKey(conns, id) ==
    IF \E k \in DOMAIN conns : k > id
    THEN [at |-> "visit", id |-> Min({k \in DOMAIN conns : k > id})]
    ELSE NoWalk

\* sink_it_ is entered and broadcast_log's loop starts at connections.begin()
LogWalkBegin ==
    /\ fault = "none"
    /\ walker.at = "out" /\ held["sink"] = "none"
    /\ connections # <<>>
    /\ walker' = [at |-> "visit", id |-> Min(DOMAIN connections)]
    /\ held' = [held EXCEPT !["sink"] = "logger"]
    /\ last' = NoLast
    /\ UNCHANGED <<connections, open, writableReq, wire, wfail, handed, enq,
                   lifecycle,
                   fault, m_socketsOn, qsize, pc, stopping, terminated,
                   m_isWsRunning, iter, tpos, msgVars>>

\* one pass of the loop body: hasPermission("logs"), push_to_buffer, ++it.
\* When the entry was erased and its Connection deleted under the iterator,
\* the pass reads freed memory: it traps, or the walk goes on from whatever
\* the freed node's links give (a later entry, or the end).
LogWalkVisit ==
    /\ fault = "none"
    /\ walker.at = "visit"
    /\ IF walker.id \in DOMAIN connections
       THEN LET c == connections[walker.id] IN
            /\ Room(connections, {walker.id} \cap LogReaders(connections), 1)
            /\ connections' =
                  IF c.ptr = "obj" /\ hasPermission(c, "logs")
                  THEN [connections EXCEPT ![walker.id] = push_to_buffer(@, LogMsg)]
                  ELSE connections
            /\ fault' = IF c.ptr = "null" THEN "broadcast_log" ELSE fault
            /\ walker' = NextKey(connections, walker.id)
       ELSE /\ connections' = connections
            /\ \E outcome \in {"trap", "next", "end"} :
                 /\ fault' = IF outcome = "trap" THEN "broadcast_log" ELSE fault
                 /\ walker' = IF outcome = "next"
                              THEN NextKey(connections, walker.id)
                              ELSE NoWalk
    /\ enq' = EnqAfter(connections')
    /\ held' = [held EXCEPT !["sink"] =
                   IF walker'.at = "out" THEN "none" ELSE @]
    /\ last' = NoLast
    /\ UNCHANGED <<open, writableReq, wire, wfail, handed, lifecycle,
                   m_socketsOn, qsize,
                   pc, stopping, terminated, m_isWsRunning, iter, tpos, msgVars>>

\* a permission tag is added to a live Connection's permissions
GrantPermission(socketID, tag) ==
    /\ fault = "none"
    /\ IsLive(connections, socketID)
    /\ tag \notin connections[socketID].permissions
    /\ connections' = [connections EXCEPT
                          ![socketID].permissions = @ \cup {tag}]
    /\ last' = NoLast
    /\ UNCHANGED <<threadVars, msgVars>>
    /\ UNCHANGED <<open, writableReq, wire, wfail, handed, enq, lifecycle,
                   fault, m_socketsOn,
                   qsize, pc, stopping, terminated, m_isWsRunning, iter>>

\* the radio thread pushes a batch onto the bound sample queue
PushBatch ==
    /\ fault = "none"
    /\ qsize < MaxDepth
    /\ qsize' = qsize + 1
    /\ last' = NoLast
    /\ UNCHANGED <<threadVars, msgVars>>
    /\ UNCHANGED <<connections, open, writableReq, wire, wfail, handed, enq,
                   lifecycle, fault,
                   m_socketsOn, pc, stopping, terminated, m_isWsRunning, iter>>

\* wsSpectrogram::terminate
terminate ==
    /\ fault = "none"
    /\ stopping' = TRUE
    /\ last' = NoLast
    /\ UNCHANGED <<threadVars, msgVars>>
    /\ UNCHANGED <<connections, open, writableReq, wire, wfail, handed, enq,
                   lifecycle, fault,
                   m_socketsOn, qsize, pc, terminated, m_isWsRunning, iter>>

\* ------------------------------------------------------------ threadMain
\* threadMain clears terminated and stopping and enters run(), which sets
\* m_isWsRunning, logs and binds the queue (getQueue logs too).
ThreadStart ==
    /\ pc = "idle" /\ fault = "none"
    /\ terminated' = FALSE
    /\ stopping' = FALSE
    /\ m_isWsRunning' = TRUE
    /\ \E lg \in 0..MaxBuf :
         /\ Room(connections, LogReaders(connections), lg)
         /\ CanLog(lg)
         /\ connections' = Logged(connections, lg)
         /\ enq' = EnqAfter(Logged(connections, lg))
    /\ pc' = "loop"
    /\ iter' = NoIter
    /\ last' = NoLast
    /\ UNCHANGED <<threadVars, msgVars>>
    /\ UNCHANGED <<open, writableReq, wire, wfail, handed, lifecycle, fault,
                   m_socketsOn, qsize>>

\* MUTANT: the loop of WebSocketServer::run, while (true)
LoopCondition_always(stop) == TRUE

\* while (!stopping)
LoopCondition(stop) == ~stop

\* while (!stopping): the flag is clear, the iteration calls wait
LoopEnter ==
    /\ pc = "loop" /\ fault = "none"
    /\ LoopCondition(stopping)
    /\ pc' = "wait"
    /\ iter' = NoIter
    /\ last' = NoLast
    /\ UNCHANGED <<threadVars, msgVars>>
    /\ UNCHANGED <<connections, open, writableReq, wire, wfail, handed, enq,
                   lifecycle, fault,
                   m_socketsOn, qsize, stopping, terminated, m_isWsRunning>>

\* while (!stopping): the flag is set; run() clears m_isWsRunning, logs and
\* returns, threadMain sets terminated and stopping
LoopExit ==
    /\ pc = "loop" /\ fault = "none"
    /\ ~LoopCondition(stopping)
    /\ m_isWsRunning' = FALSE
    /\ \E lg \in 0..1 :
         /\ Room(connections, LogReaders(connections), lg)
         /\ CanLog(lg)
         /\ connections' = Logged(connections, lg)
         /\ enq' = EnqAfter(Logged(connections, lg))
    /\ terminated' = TRUE
    /\ stopping' = TRUE
    /\ pc' = "done"
    /\ last' = NoLast
    /\ UNCHANGED <<threadVars, msgVars>>
    /\ UNCHANGED <<open, writableReq, wire, wfail, handed, lifecycle, fault,
                   m_socketsOn,
                   qsize, iter>>

\* WebSocketServer::wait: lws_service returned >= 0
WaitReturn ==
    /\ InService
    /\ pc' = "check"
    /\ last' = NoLast
    /\ UNCHANGED <<threadVars, msgVars>>
    /\ UNCHANGED <<connections, open, writableReq, wire, wfail, handed, enq,
                   lifecycle, fault,
                   m_socketsOn, qsize, stopping, terminated, m_isWsRunning, iter>>

\* MUTANT: the failure of lws_service is ignored and the iteration goes on
WaitThrows_swallow ==
    /\ InService
    /\ pc' = "check"
    /\ last' = Op("wait_error", 0, "")
    /\ UNCHANGED <<threadVars, msgVars>>
    /\ UNCHANGED <<connections, open, writableReq, wire, wfail, handed, enq,
                   lifecycle, fault,
                   m_socketsOn, qsize, stopping, terminated, m_isWsRunning, iter>>

\* WebSocketServer::wait: lws_service returned < 0, runtime_error is thrown;
\* threadMain's catch sets terminated and stopping and rethrows
WaitThrows ==
    /\ InService
    /\ terminated' = TRUE
    /\ stopping' = TRUE
    /\ pc' = "failed"
    /\ last' = Op("wait_error", 0, "")
    /\ UNCHANGED <<threadVars, msgVars>>
    /\ UNCHANGED <<connections, open, writableReq, wire, wfail, handed, enq,
                   lifecycle, fault,
                   m_socketsOn, qsize, m_isWsRunning, iter>>

\* MUTANT: the batch is popped at the threshold depth already
DepthExceeds_atThreshold(depth) == depth >= QueueThreshold

\* m_IQdataQueue->size() > 5
DepthExceeds(depth) == depth > QueueThreshold

\* if (m_IQdataQueue->size() > 5)
QueueCheck ==
    /\ pc = "check" /\ fault = "none"
    /\ pc' = IF DepthExceeds(qsize) THEN "pop" ELSE "loop"
    /\ iter' = [iter EXCEPT !.ran = TRUE, !.depth = qsize, !.stop = stopping]
    /\ last' = NoLast
    /\ UNCHANGED <<threadVars, msgVars>>
    /\ UNCHANGED <<connections, open, writableReq, wire, wfail, handed, enq,
                   lifecycle, fault,
                   m_socketsOn, qsize, stopping, terminated, m_isWsRunning>>

\* m_IQdataQueue->pop(m_IQdataOut); if (m_socketsOn) { lock; build the
\* message; broadcast(m_msgSOCKET.str()); }
PopBatch ==
    /\ pc = "pop" /\ fault = "none"
    /\ qsize' = qsize - 1
    /\ IF m_socketsOn
       THEN /\ Room(connections, DOMAIN connections, 1)
            /\ LET r == broadcast(connections, SpectrumMsg) IN
               /\ connections' = r.conns
               /\ enq' = EnqAfter(r.conns)
               /\ fault' = IF r.trap THEN "broadcast" ELSE fault
            /\ iter' = [iter EXCEPT !.pops = @ + (qsize - qsize'),
                                     !.bcasts = @ + 1]
            /\ last' = Op("broadcast", 0, SpectrumMsg)
       ELSE /\ iter' = [iter EXCEPT !.pops = @ + (qsize - qsize')]
            /\ last' = NoLast
            /\ UNCHANGED <<connections, enq, fault>>
    /\ pc' = "loop"
    /\ UNCHANGED <<threadVars, msgVars>>
    /\ UNCHANGED <<open, writableReq, wire, wfail, handed, lifecycle,
                   m_socketsOn, stopping,
                   terminated, m_isWsRunning>>

\* ------------------------------------------------------------ mutexes
\* A code path is the sequence of mutex operations it performs.  A log
\* statement that reaches the WebSocket sink locks the sink's mutex around
\* sink_it_, which calls broadcast_log; broadcast_log takes no mutex.
Acq(l) == [op |-> "acq", lock |-> l]

Rel(l) == [op |-> "rel", lock |-> l]

\* MUTANT: broadcast_log takes m_onSockets_mutex while it walks the registry
sink_it_Path_gate == <<Acq("sink"), Acq("gate"), Rel("gate"), Rel("sink")>>

\* base_sink<std::mutex>::log: lock, sink_it_, unlock
sink_it_Path == <<Acq("sink"), Rel("sink")>>

\* onConnect and onDisconnect: lock_guard(m_onSockets_mutex), LOG_TEST_INFO
GatePath == <<Acq("gate")>> \o sink_it_Path \o <<Rel("gate")>>

\* run(): lock_guard(m_onSockets_mutex) around building and broadcasting the
\* message; nothing inside it logs
BroadcastPath == <<Acq("gate"), Rel("gate")>>

\* setQueue and getQueue: lock_guard(m_queue_bindings_mutex), LOG_TEST_DEBUG
QueuePath == <<Acq("queue")>> \o sink_it_Path \o <<Rel("queue")>>

PathOps(path) ==
    CASE path = "onConnect"    -> GatePath
      [] path = "onDisconnect" -> GatePath
      [] path = "broadcast"    -> BroadcastPath
      [] path = "getQueue"     -> QueuePath
      [] path = "setQueue"     -> QueuePath
      [] path = "log"          -> sink_it_Path

\* the paths each thread runs: the threadMain thread runs the callbacks,
\* run()'s getQueue and broadcast, and logs (onMessage, onError); a binder
\* calls setQueue and getQueue; a logging thread logs
PathsOf(t) ==
    CASE t = "reactor" -> {"onConnect", "onDisconnect", "broadcast", "getQueue", "log"}
      [] t = "binder"  -> {"setQueue", "getQueue"}
      [] t = "logger"  -> {"log"}

NextOp(t) == PathOps(tpos[t].path)[tpos[t].i]

\* after its i-th operation a thread is at the next one, or out of the path
Advance(t) ==
    IF tpos[t].i = Len(PathOps(tpos[t].path)) THEN NoPath
    ELSE [tpos[t] EXCEPT !.i = @ + 1]

\* a thread enters one of its paths
PathBegin(t, path) ==
    /\ fault = "none"
    /\ tpos[t] = NoPath
    /\ path \in PathsOf(t)
    /\ tpos' = [tpos EXCEPT ![t] = [path |-> path, i |-> 1]]
    /\ UNCHANGED <<connections, open, writableReq, wire, wfail, handed, enq,
                   lifecycle, fault, m_socketsOn, qsize, pc, stopping, terminated,
                   m_isWsRunning, iter, last, walker, held, msgVars>>

\* std::mutex::lock: the thread goes on once the mutex is free
MutexLock(t) ==
    /\ fault = "none"
    /\ tpos[t] # NoPath
    /\ NextOp(t).op = "acq"
    /\ held[NextOp(t).lock] = "none"
    /\ held' = [held EXCEPT ![NextOp(t).lock] = t]
    /\ tpos' = [tpos EXCEPT ![t] = Advance(t)]
    /\ UNCHANGED <<connections, open, writableReq, wire, wfail, handed, enq,
                   lifecycle, fault, m_socketsOn, qsize, pc, stopping, terminated,
                   m_isWsRunning, iter, last, walker, msgVars>>

\* std::mutex::unlock at the end of the guard's scope
MutexUnlock(t) ==
    /\ fault = "none"
    /\ tpos[t] # NoPath
    /\ NextOp(t).op = "rel"
    /\ held' = [held EXCEPT ![NextOp(t).lock] = "none"]
    /\ tpos' = [tpos EXCEPT ![t] = Advance(t)]
    /\ UNCHANGED <<connections, open, writableReq, wire, wfail, handed, enq,
                   lifecycle, fault, m_socketsOn, qsize, pc, stopping, terminated,
                   m_isWsRunning, iter, last, walker, msgVars>>

\* ------------------------------------------------------------ spectrum message
\* spgramcf_get_psd fills sp_psd with floats; the model keeps a value in
\* tenths, so -19 stands for -1.9
PsdValues == {-19, -10, -5, 0, 19}

Freqs == {0, 7, 868}

Spans == {2, 10}

DigitChars == <<"0", "1", "2", "3", "4", "5", "6", "7", "8", "9">>

RECURSIVE Digits10(_)
Digits10(n) ==
    IF n < 10 THEN <<DigitChars[n + 1]>>
    ELSE Append(Digits10(n \div 10), DigitChars[(n % 10) + 1])

\* std::to_string(int), and operator<< of an integer: sign, decimal digits
to_string(n) == IF n < 0 THEN <<"-">> \o Digits10(-n) ELSE Digits10(n)

\* MUTANT: the value is rounded down (floorf) instead of cut off
IntCast_floor(x) == x \div 10

\* (int)sp_psd[i]: the conversion discards the fractional part
IntCast(x) == IF x >= 0 THEN x \div 10 ELSE -((-x) \div 10)

\* int i = 0; while (i < nfft) { m_msgSOCKET << std::to_string((int)sp_psd[i]);
\* if (i < nfft - 1) m_msgSOCKET << ","; i++; }
RECURSIVE PowerList(_, _, _)
PowerList(psd, i, nfft) ==
    IF ~(i < nfft) THEN <<>>
    ELSE to_string(IntCast(psd[i + 1]))
         \o (IF i < nfft - 1 THEN <<",">> ELSE <<>>)
         \o PowerList(psd, i + 1, nfft)

\* the text lines 117-141 put into m_msgSOCKET; each literal is one token,
\* each character of a number is one token
SpectrumText(center, span, psd) ==
    <<"{\"center\":[">> \o to_string(center) \o <<"],">>
    \o <<"\"span\":[">> \o to_string(span) \o <<"],">>
    \o <<"\"s\":[">> \o PowerList(psd, 0, Nfft) \o <<"]}">>

\* a wsSpectrogram whose centre frequency and span have been set
InitMessage ==
    /\ InitServer
    /\ sp_psd = [i \in 1..Nfft |-> 0]
    /\ m_rxFreq \in Freqs
    /\ m_span \in Spans
    /\ m_msgSOCKET = <<>>

\* lines 104-141 of run(): the estimator writes sp_psd and the message is
\* built from it and from m_rxFreq and m_span
EmitMessage ==
    /\ fault = "none"
    /\ sp_psd' \in [1..Nfft -> PsdValues]
    /\ m_msgSOCKET' = SpectrumText(m_rxFreq, m_span, sp_psd')
    /\ UNCHANGED <<connections, open, writableReq, wire, wfail, handed, enq,
                   lifecycle,
                   fault, m_socketsOn, qsize, pc, stopping, terminated,
                   m_isWsRunning, iter, last, threadVars, m_rxFreq, m_span>>

\* ------------------------------------------------------------ specification
Next ==
    \/ \E fd \in Fds : Established(fd)
    \/ \E fd \in Fds : EstablishedDuplicate(fd)
    \/ \E fd \in Fds : WritableDrain(fd)
    \/ \E fd \in Fds : WritableNoEntry(fd)
    \/ \E fd \in Fds : Closed(fd)
    \/ \E fd \in Fds, data \in Payloads : Receive(fd, data)
    \/ \E fd \in Fds, data \in Payloads : ReceiveThrows(fd, data)
    \/ \E id \in Fds, data \in Msgs : Send(id, data)
    \/ \E data \in Msgs : Broadcast(data)
    \/ LogRecord
    \/ LogWalkBegin
    \/ LogWalkVisit
    \/ \E id \in Fds, tag \in Tags : GrantPermission(id, tag)
    \/ PushBatch
    \/ terminate
    \/ ThreadStart
    \/ LoopEnter
    \/ LoopExit
    \/ WaitReturn
    \/ WaitThrows
    \/ QueueCheck
    \/ PopBatch
    \/ EmitMessage
    \/ \E t \in Threads, path \in {"onConnect", "onDisconnect", "broadcast",
                                    "getQueue", "setQueue", "log"} :
          PathBegin(t, path)
    \/ \E t \in Threads : MutexLock(t)
    \/ \E t \in Threads : MutexUnlock(t)

Spec == Init /\ [][Next]_vars

\* the multiplexer alone: the thread polls, sockets come and go, callers
\* send and broadcast; nobody logs, pushes batches or terminates
NextMux ==
    \/ \E fd \in Fds : Established(fd)
    \/ \E fd \in Fds : WritableDrain(fd)
    \/ \E fd \in Fds : WritableNoEntry(fd)
    \/ \E fd \in Fds : Closed(fd)
    \/ \E id \in Fds, data \in Msgs : Send(id, data)
    \/ \E data \in Msgs : Broadcast(data)
    \/ ThreadStart
    \/ LoopEnter
    \/ WaitReturn
    \/ QueueCheck

SpecMux == Init /\ [][NextMux]_vars

\* the multiplexer with broadcasting callers only
NextBroadcast ==
    \/ \E fd \in Fds : Established(fd)
    \/ \E fd \in Fds : WritableDrain(fd)
    \/ \E fd \in Fds : WritableNoEntry(fd)
    \/ \E fd \in Fds : Closed(fd)
    \/ \E data \in Msgs : Broadcast(data)
    \/ ThreadStart
    \/ LoopEnter
    \/ WaitReturn
    \/ QueueCheck

SpecBroadcast == Init /\ [][NextBroadcast]_vars

\* the log fan-out: the thread polls, sockets come and go, threads log and
\* permissions are granted; nobody pushes batches
NextLog ==
    \/ \E fd \in Fds : Established(fd)
    \/ \E fd \in Fds : WritableDrain(fd)
    \/ \E fd \in Fds : WritableNoEntry(fd)
    \/ \E fd \in Fds : Closed(fd)
    \/ LogRecord
    \/ \E id \in Fds, tag \in Tags : GrantPermission(id, tag)
    \/ ThreadStart
    \/ LoopEnter
    \/ WaitReturn
    \/ QueueCheck

SpecLog == Init /\ [][NextLog]_vars

\* the producer: the thread runs its whole loop and turns batches into
\* broadcasts, sockets come and go and send text, the owner terminates
NextProducer ==
    \/ \E fd \in Fds : Established(fd)
    \/ \E fd \in Fds : WritableDrain(fd)
    \/ \E fd \in Fds : WritableNoEntry(fd)
    \/ \E fd \in Fds : Closed(fd)
    \/ \E fd \in Fds, data \in Payloads : Receive(fd, data)
    \/ \E fd \in Fds, data \in Payloads : ReceiveThrows(fd, data)
    \/ PushBatch
    \/ terminate
    \/ ThreadStart
    \/ LoopEnter
    \/ LoopExit
    \/ WaitReturn
    \/ WaitThrows
    \/ QueueCheck
    \/ PopBatch

SpecProducer == Init /\ [][NextProducer]_vars

\* the reactor thread against a logging thread that walks the registry one
\* entry at a time
NextRace ==
    \/ \E fd \in Fds : Established(fd)
    \/ \E fd \in Fds : WritableDrain(fd)
    \/ \E fd \in Fds : WritableNoEntry(fd)
    \/ \E fd \in Fds : Closed(fd)
    \/ \E id \in Fds, tag \in Tags : GrantPermission(id, tag)
    \/ LogWalkBegin
    \/ LogWalkVisit
    \/ ThreadStart
    \/ LoopEnter
    \/ WaitReturn
    \/ QueueCheck

SpecRace == Init /\ [][NextRace]_vars

\* the thread's own steps: a started thread keeps running, and a poll that
\* neither fails nor traps returns
ThreadStep == LoopEnter \/ LoopExit \/ WaitReturn \/ QueueCheck \/ PopBatch

\* the producer under a scheduler that lets the thread run
SpecProducerFair == Init /\ [][NextProducer]_vars /\ WF_vars(ThreadStep)

\* the multiplexer under an engine that may report a session on a descriptor
\* already registered
NextDuplicate ==
    \/ \E fd \in Fds : Established(fd)
    \/ \E fd \in Fds : EstablishedDuplicate(fd)
    \/ \E fd \in Fds : WritableDrain(fd)
    \/ \E fd \in Fds : WritableNoEntry(fd)
    \/ \E fd \in Fds : Closed(fd)
    \/ \E id \in Fds, data \in Msgs : Send(id, data)
    \/ ThreadStart
    \/ LoopEnter
    \/ WaitReturn
    \/ QueueCheck

SpecDuplicate == Init /\ [][NextDuplicate]_vars

\* the multiplexer with callers of send, under a fair engine and scheduler:
\* the thread keeps polling, and a requested writable callback is delivered
\* in some poll; the callers all send the same text, a message being told
\* from the others by its place in the buffer
NextFlush ==
    \/ \E fd \in Fds : Established(fd)
    \/ \E fd \in Fds : WritableDrain(fd)
    \/ \E fd \in Fds : WritableNoEntry(fd)
    \/ \E fd \in Fds : Closed(fd)
    \/ \E id \in Fds : Send(id, "A")
    \/ ThreadStart
    \/ LoopEnter
    \/ WaitReturn
    \/ QueueCheck

PollStep == ThreadStart \/ LoopEnter \/ WaitReturn \/ QueueCheck

SpecFlush ==
    /\ Init /\ [][NextFlush]_vars
    /\ WF_vars(PollStep)
    /\ \A fd \in Fds : SF_vars(WritableDrain(fd))

\* the threads seen at their mutex operations only
NextLocks ==
    \/ \E t \in Threads, path \in {"onConnect", "onDisconnect", "broadcast",
                                    "getQueue", "setQueue", "log"} :
          PathBegin(t, path)
    \/ \E t \in Threads : MutexLock(t)
    \/ \E t \in Threads : MutexUnlock(t)

SpecLocks == Init /\ [][NextLocks]_vars

\* the message builder alone, on every estimator output
NextMessage == EmitMessage

SpecMessage == InitMessage /\ [][NextMessage]_vars

\* ------------------------------------------------------------ claims
ShortWrite(w) == 0 <= w.ret /\ w.ret < strlen(w.msg)

FullWrite(w) == w.ret = strlen(w.msg)

\* C1: as long as no lws_write on a socket has failed, the messages handed
\* to lws_write for it are the messages enqueued on its connection, in
\* enqueue order and each at most once: the sent sequence is a prefix of the
\* enqueued sequence.
C1_SentIsEnqueuedPrefix ==
    \A fd \in Fds :
        (IsLive(connections, fd) /\ ~wfail[fd]) => IsPrefix(wire[fd], enq[fd])

\* C2: after a writable event for a live connection in which every
\* lws_write returned the full length, the connection's buffer is empty.
C2_DrainEmptiesBuffer ==
    (/\ last.op = "writable"
     /\ IsLive(connections, last.fd)
     /\ \A i \in 1..Len(last.writes) : FullWrite(last.writes[i]))
    => getBuffer(connections[last.fd]) = <<>>

\* C3: when an lws_write of a drain loop returns a byte count below the
\* message's length, onErrorWrapper is called, the connection is no longer
\* in the registry, and that lws_write is the last one of the drain.
C3_ShortWriteRemoves ==
    \A i \in 1..Len(last.writes) :
        ShortWrite(last.writes[i]) =>
            /\ last.op = "writable"
            /\ last.onError
            /\ last.fd \notin DOMAIN connections
            /\ i = Len(last.writes)

\* C3 witness: a drain loop met a short write while its buffer held a
\* further message, and the connection is gone.
C3_Witness ==
    /\ last.op = "writable"
    /\ last.writes # <<>>
    /\ ShortWrite(last.writes[Len(last.writes)])
    /\ Len(last.buffer) > Len(last.writes)
    /\ last.fd \notin DOMAIN connections

\* C4: once a write failure has removed a connection whose session stays
\* open, no later engine event for it makes the reactor trap in
\* callback_main.
C4_ReactorSurvivesWriteFailure ==
    \A fd \in Fds :
        (fd \in open /\ lifecycle[fd] = "removed")
            => fault # "SERVER_WRITEABLE"

\* C5: broadcast(m) leaves the registry's keys as they are and appends one
\* copy of m to the tail of every registered connection's buffer; a
\* connection established later starts with an empty buffer, so m is not
\* in it.
C5_BroadcastAppendsOnce ==
    [][ /\ last'.op = "broadcast" =>
              /\ DOMAIN connections' = DOMAIN connections
              /\ \A id \in DOMAIN connections :
                    getBuffer(connections'[id])
                        = Append(getBuffer(connections[id]), last'.data)
        /\ last'.op = "established" =>
              getBuffer(connections'[last'.fd]) = <<>>
      ]_vars

\* C5 witness: a broadcast has just reached two connections, one of which
\* already held a message.
C5_Witness ==
    /\ last.op = "broadcast"
    /\ \E a, b \in Fds :
          /\ a # b
          /\ IsLive(connections, a) /\ IsLive(connections, b)
          /\ Len(getBuffer(connections[a])) = 2
          /\ getBuffer(connections[a])[1] # last.data
          /\ getBuffer(connections[a])[2] = last.data
          /\ getBuffer(connections[b]) = <<last.data>>

\* C6: a record given to the log sink (broadcast_log) is appended to the
\* buffer of exactly the connections whose permissions contain "logs"; every
\* other connection's buffer is unchanged.
C6_LogsOnlyToPermitted ==
    [][ last'.op = "sink_it_" =>
            /\ DOMAIN connections' = DOMAIN connections
            /\ \A id \in DOMAIN connections :
                  getBuffer(connections'[id])
                      = IF "logs" \in connections[id].permissions
                        THEN Append(getBuffer(connections[id]), last'.data)
                        ELSE getBuffer(connections[id])
      ]_vars

\* C6, the other-tag case: a record has just been delivered to a connection
\* holding "logs" while a connection holding only another permission is
\* registered.
C6_WitnessOtherTag ==
    /\ last.op = "sink_it_"
    /\ \E a, b \in Fds :
          /\ IsLive(connections, a) /\ IsLive(connections, b)
          /\ "logs" \in connections[a].permissions
          /\ getBuffer(connections[a]) # <<>>
          /\ connections[b].permissions = {"user"}

\* C6 witness: a record has just been logged while a connection with an
\* empty permission set is registered next to one holding "logs".
C6_Witness ==
    /\ last.op = "sink_it_"
    /\ \E a, b \in Fds :
          /\ IsLive(connections, a) /\ IsLive(connections, b)
          /\ "logs" \in connections[a].permissions
          /\ connections[b].permissions = {}

\* C7: send to an id without a registry entry changes nothing: no entry is
\* added and nothing traps.
C7_SendUnknownIsNoOp ==
    (last.op = "send" /\ ~last.known)
        => (fault = "none" /\ last.fd \notin DOMAIN connections)

\* C8: an id maps to a live Connection exactly when its last lifecycle event
\* was established, and an id whose last lifecycle event was a removal has
\* no registry entry at all.
C8_RegistryInvariant ==
    \A fd \in Fds :
        /\ IsLive(connections, fd) <=> lifecycle[fd] = "established"
        /\ lifecycle[fd] = "removed" => fd \notin DOMAIN connections

\* C9: an iteration of run()'s loop that saw a queue depth of at most 5 has
\* popped nothing and broadcast nothing; one that saw more than 5 has taken
\* exactly one batch off the queue and broadcast at most once.
C9_Backpressure ==
    (pc = "loop" /\ iter.ran) =>
        IF iter.depth <= QueueThreshold
        THEN iter.pops = 0 /\ iter.bcasts = 0
        ELSE iter.pops = 1 /\ iter.bcasts <= 1

\* C9 witness: an iteration that saw a depth above 5 has ended, having
\* popped one batch and broadcast it.
C9_Witness ==
    /\ pc = "loop" /\ iter.ran
    /\ iter.depth > QueueThreshold
    /\ iter.pops = 1 /\ iter.bcasts = 1

\* C10: while the process runs, m_socketsOn is true exactly when the
\* registry holds at least one connection.
C10_GateTracksConnections ==
    fault = "none" => (m_socketsOn <=> getNumberOfConnections > 0)

\* the thread is inside run()'s loop
InLoop == pc \in {"loop", "wait", "check", "pop"}

\* the poll call did not return: it threw, or a callback inside it trapped
PollDidNotReturn ==
    pc = "failed" \/ fault \in {"SERVER_WRITEABLE", "onMessage"}

\* the model's buffers are full: the broadcast of the popped batch does not
\* fit into MaxBuf, and the model follows the thread no further
AtBufferBound ==
    pc = "pop" /\ m_socketsOn /\ ~Room(connections, DOMAIN connections, 1)

\* C11: once terminate() has set stopping while the thread is in run()'s
\* loop, no step enters wait for a new iteration, and, unless a poll call
\* fails to return, the thread reaches the stopped state: terminated true
\* and m_isWsRunning false (followed as far as the buffers' bound).
C11_TerminateStopsLoop ==
    /\ [][(stopping /\ InLoop) => (pc' = "wait" => pc = "wait")]_vars
    /\ (stopping /\ InLoop) ~>
           \/ (pc = "done" /\ terminated /\ ~m_isWsRunning)
           \/ PollDidNotReturn
           \/ AtBufferBound

\* C11 witness: stopping was already set when the last iteration looked at
\* the queue; that iteration popped its batch and the thread then stopped.
C11_Witness ==
    /\ pc = "done" /\ terminated /\ ~m_isWsRunning
    /\ iter.ran /\ iter.stop /\ iter.pops = 1

\* C12: while a logging thread is inside broadcast_log's loop, the entry its
\* iterator is at stays in the registry (its Connection is not destroyed),
\* and no step of another thread changes the registry's keys or a
\* connection's buffer.
C12_RegistryAccessExclusive ==
    /\ [](walker.at = "visit" => walker.id \in DOMAIN connections)
    /\ [][(walker.at = "visit" /\ walker' = walker) =>
             /\ DOMAIN connections' = DOMAIN connections
             /\ \A id \in DOMAIN connections :
                   getBuffer(connections'[id]) = getBuffer(connections[id])
         ]_vars

\* reading a message back
FirstIndex(seq, tok, from) == Min({i \in from..Len(seq) : seq[i] = tok})

Has(seq, tok, from) == \E i \in from..Len(seq) : seq[i] = tok

RECURSIVE Split(_)
Split(body) ==
    IF ~Has(body, ",", 1) THEN <<body>>
    ELSE LET k == FirstIndex(body, ",", 1)
         IN <<SubSeq(body, 1, k - 1)>> \o Split(SubSeq(body, k + 1, Len(body)))

IsDigits(f) ==
    f # <<>> /\ \A i \in 1..Len(f) : \E d \in 1..10 : DigitChars[d] = f[i]

IsIntText(f) ==
    f # <<>> /\ IF f[1] = "-" THEN IsDigits(Tail(f)) ELSE IsDigits(f)

RECURSIVE NatOf(_)
NatOf(f) ==
    IF f = <<>> THEN 0
    ELSE 10 * NatOf(SubSeq(f, 1, Len(f) - 1))
         + (CHOOSE d \in 0..9 : DigitChars[d + 1] = f[Len(f)])

IntOf(f) == IF f[1] = "-" THEN -NatOf(Tail(f)) ELSE NatOf(f)

\* n is x (in tenths) with its fractional part cut off
IsTruncationOf(n, x) ==
    IF x >= 0 THEN 10 * n <= x /\ x < 10 * (n + 1)
    ELSE 10 * (n - 1) < x /\ x <= 10 * n

\* C13: a built message reads {"center":[c],"span":[s],"s":[p0,...]} with c
\* and s the current m_rxFreq and m_span and, between "s":[ and ]}, exactly
\* Nfft integers separated by Nfft - 1 commas, none trailing, the k-th being
\* the truncation of sp_psd[k].
C13_SpectrumMessageFormat ==
    m_msgSOCKET # <<>> =>
        LET m == m_msgSOCKET IN
        /\ m[1] = "{\"center\":[" /\ Has(m, "],", 2)
        /\ LET a == FirstIndex(m, "],", 2) IN
           /\ IsIntText(SubSeq(m, 2, a - 1))
           /\ IntOf(SubSeq(m, 2, a - 1)) = m_rxFreq
           /\ m[a + 1] = "\"span\":[" /\ Has(m, "],", a + 2)
           /\ LET b == FirstIndex(m, "],", a + 2) IN
              /\ IsIntText(SubSeq(m, a + 2, b - 1))
              /\ IntOf(SubSeq(m, a + 2, b - 1)) = m_span
              /\ m[b + 1] = "\"s\":[" /\ m[Len(m)] = "]}"
              /\ LET body   == SubSeq(m, b + 2, Len(m) - 1)
                     fields == Split(body)
                 IN /\ Len(fields) = Nfft
                    /\ Cardinality({i \in 1..Len(body) : body[i] = ","}) = Nfft - 1
                    /\ body # <<>> /\ body[Len(body)] # ","
                    /\ \A k \in 1..Len(fields) :
                          /\ IsIntText(fields[k])
                          /\ k <= Nfft
                          /\ IsTruncationOf(IntOf(fields[k]), sp_psd[k])

\* C13 witness: a message was built from bins holding -1.9, 1.9 and -0.5,
\* whose truncation differs from both rounding and rounding down.
C13_Witness ==
    /\ m_msgSOCKET # <<>>
    /\ m_rxFreq = 868
    /\ sp_psd[1] = -19 /\ sp_psd[2] = 19 /\ sp_psd[Nfft] = -5

\* C14: when wait() throws on a failed poll, threadMain ends with terminated
\* and stopping both true and the failure propagated; from then on the
\* thread polls, pops and broadcasts no more.
C14_PollFailureIsFatal ==
    [][ /\ last'.op = "wait_error" =>
              (pc' = "failed" /\ terminated' /\ stopping')
        /\ pc = "failed" =>
              /\ pc' = "failed" /\ terminated' /\ stopping'
              /\ qsize' >= qsize
              /\ connections' = connections
      ]_vars

\* C14 witness: the poll failed while a client was attached and a batch was
\* waiting above the threshold.
C14_Witness ==
    /\ last.op = "wait_error" /\ pc = "failed"
    /\ terminated /\ stopping
    /\ m_socketsOn /\ qsize > QueueThreshold

\* C15: an established event for an id that has a registry entry leaves that
\* entry's Connection as it was: the same pending buffer, the same
\* permissions.
C15_DuplicateRegisterKeepsConnection ==
    [][(last'.op = "established" /\ last'.known) =>
           connections'[last'.fd] = connections[last'.fd]]_vars

\* C16: a closed event for an id without a registry entry changes nothing:
\* the registry with every connection's buffer, the gate flag m_socketsOn and
\* the fault state are as before.
C16_ClosedUnknownIsNoOp ==
    [][(last'.op = "closed" /\ ~last'.known) =>
           /\ connections' = connections
           /\ m_socketsOn' = m_socketsOn
           /\ fault' = fault]_vars

\* C17: when an lws_write of a drain loop returns any value numerically below
\* the message's length, -1 included, onErrorWrapper is called, the loop
\* stops at that write and the connection is removed.
C17_NegativeReturnIsError ==
    \A i \in 1..Len(last.writes) :
        last.writes[i].ret < strlen(last.writes[i].msg) =>
            /\ last.onError
            /\ i = Len(last.writes)
            /\ last.fd \notin DOMAIN connections

\* the model records MaxWire lws_write calls per socket: the next drain of
\* fd's buffer does not fit, and the model follows the socket no further
AtWireBound(fd) ==
    IsLive(connections, fd)
        /\ Len(wire[fd]) + Len(getBuffer(connections[fd])) > MaxWire

\* C18: a writable event that ran its drain loop leaves the writable callback
\* requested again, whether or not a write failed; and under a fair engine
\* every message on a connection's buffer is given to lws_write: again and
\* again the whole buffer of each socket has been handed over, unless its
\* connection is gone or the process has trapped (followed as far as the
\* bound on recorded writes).
C18_RearmFlushes ==
    /\ [][(last'.op = "writable" /\ fault' = "none") =>
              last'.fd \in writableReq']_vars
    /\ \A fd \in Fds :
          []<>(\/ ~IsLive(connections, fd)
               \/ fault # "none"
               \/ AtWireBound(fd)
               \/ handed[fd] = Len(getBuffer(connections[fd])))

\* C18 witness: a drain that came after an earlier drain of the same socket
\* (so was delivered on the re-request) gave a message to lws_write, all of
\* the buffer has been handed over, and the callback is requested again.
C18_Witness ==
    /\ last.op = "writable" /\ last.writes # <<>>
    /\ Len(wire[last.fd]) > Len(last.writes)
    /\ IsLive(connections, last.fd)
    /\ handed[last.fd] = Len(getBuffer(connections[last.fd]))
    /\ last.fd \in writableReq

\* a thread stands at a lock() of a mutex that is held
Blocked(t) ==
    /\ tpos[t] # NoPath
    /\ NextOp(t).op = "acq"
    /\ held[NextOp(t).lock] # "none"

\* C19: no set of threads waits in a cycle: there are no threads each
\* standing at a lock() of a mutex held by a thread of the set (a set of one
\* is a thread locking a mutex it holds itself).
C19_NoLockCycle ==
    \A S \in SUBSET Threads :
        S # {} => \E t \in S : ~(Blocked(t) /\ held[NextOp(t).lock] \in S)

\* C19 witness: the reactor thread is inside onConnect holding the gate and
\* the sink's mutex, a binder holds the queue lock and waits for the sink, and
\* a logging thread waits for the sink too.
C19_Witness ==
    /\ tpos["reactor"].path = "onConnect"
    /\ held["gate"] = "reactor" /\ held["sink"] = "reactor"
    /\ held["queue"] = "binder" /\ Blocked("binder")
    /\ Blocked("logger")

\* C20: whenever terminated is true, m_isWsRunning is false.
C20_StoppedMeansNotRunning == terminated => ~m_isWsRunning

====
